---- MODULE Spec2Model ----
(***************************************************************************)
(* A network of DVroute routers (src/DVroute/DVroute.py, class Router).    *)
(* Every router owns a routing table, a neighbour table, a neighbour cost  *)
(* table, the last printed routing table and the "converged" print flag.   *)
(* Routers exchange UDP datagrams: the routing table (JSON), a link-change *)
(* notice ('*' + cost) and a link-down notice ('#').                       *)
(***************************************************************************)
EXTENDS Integers, Sequences, FiniteSets, TLC

VARIABLES
    rtrTable,             \* self.__rtrTable, per router: dest -> [nextHop, cost]
    neighbor,             \* self.__neighbor, per router: name -> cost
    neighCost,            \* self.__neighCost, per router: name -> cost
    rtrTable_history,     \* self.__rtrTable_history: <<>> is None, <<t>> a copy
    convergedPrintTimes,  \* self.__convergedPrintTimes
    PoisonReverse,        \* self.__PoisonReverse (set once, before start())
    alive,                \* the router's process is running
    printed,              \* what the router's last tick or command printed
    shown,                \* the routing table the router printed last (<<>>: none yet)
    net,                  \* datagrams in flight
    events,               \* timer expiries, datagrams and commands counted so far
    last,                 \* the last operation, its inputs and the state before it
    timer                 \* the timer thread of router A inside __updateTimer

vars == <<rtrTable, neighbor, neighCost, rtrTable_history, convergedPrintTimes,
          PoisonReverse, alive, printed, shown, net, events, last, timer>>

-----------------------------------------------------------------------------
(* Bounds of the model *)

MaxEvents == 3
MaxInFlight == 2
MaxNetEvents == 3
MaxRaceEvents == 3

-----------------------------------------------------------------------------
(* Program constants *)

MaxHop == 15

linkChangeFlag == "*"

linkDownFlag == "#"

\* A JSON object starts with '{'; anything else neither flag nor JSON is garbage.
jsonFlag == "{"

garbageFlag == "?"

\* Three of the five routers of the identity table.
addr2rName ==
    [a \in {"192.168.126.65", "192.168.126.66", "192.168.126.67"} |->
        CASE a = "192.168.126.65" -> "A"
          [] a = "192.168.126.66" -> "B"
          [] a = "192.168.126.67" -> "C"]

Addr == DOMAIN addr2rName

Node == {addr2rName[a] : a \in Addr}

rName2addr == [r \in Node |-> CHOOSE a \in Addr : addr2rName[a] = r]

\* An address that is not in the identity table.
UnknownAddr == "10.0.0.1"

\* Costs an operator may type in a linkchange command (int(order[3])).
LinkCosts == {1, MaxHop + 2}

Min(a, b) == IF a < b THEN a ELSE b

EmptyTable == [d \in {} |-> [nextHop |-> d, cost |-> 0]]

None == <<>>

-----------------------------------------------------------------------------
(* Construction: Router.__init__ *)

\* The neighbour lists given on the command lines: a line A-B-C, or a triangle.
LineTopology ==
    [n \in Node |->
        CASE n = "A" -> [r \in {"B"} |-> 1]
          [] n = "B" -> [r \in {"A", "C"} |-> 1]
          [] n = "C" -> [r \in {"B"} |-> 1]]

TriangleTopology ==
    [n \in Node |->
        CASE n = "A" -> [r \in {"B", "C"} |-> IF r = "B" THEN 1 ELSE 3]
          [] n = "B" -> [r \in {"A", "C"} |-> 1]
          [] n = "C" -> [r \in {"A", "B"} |-> IF r = "B" THEN 1 ELSE 3]]

InitTable(nb) == [dest \in DOMAIN nb |-> [nextHop |-> dest, cost |-> nb[dest]]]

NoPre == [rtr |-> EmptyTable, nc |-> EmptyTable, hist |-> None, shown |-> None]

NoOp == [op |-> "init", by |-> "init", node |-> "", addr |-> "", flag |-> "", dist |-> 0,
         vec |-> EmptyTable, sent |-> {}, pre |-> NoPre, ok |-> TRUE,
         ticks |-> [n \in Node |-> 0], stable |-> [n \in Node |-> 0], lost |-> FALSE]

\* The router whose timer thread is followed step by step.
Observed == "A"

\* The order in which the keys of Observed's dicts were inserted: its
\* neighbours in the order of the command line, B before C.
KeyOrder == <<"B", "C">>

KeysInOrder(f) ==
    LET isKey(k) == k \in DOMAIN f
    IN  SelectSeq(KeyOrder, isKey)

\* An entry of a dict whose key was popped.
hole == "-"

\* The timer thread is asleep; slots are the entries of self.__neighbor.
IdleTimer(nb) ==
    [pc |-> "idle", slots |-> KeysInOrder(nb), nsize |-> 0, nidx |-> 0, ndone |-> 0,
     started |-> FALSE,
     to |-> "", tsize |-> 0, tdone |-> 0, copy |-> EmptyTable, seen |-> {},
     torn |-> FALSE]

\* The routers in started are running; each was constructed from its
\* neighbour list.
RouterInit(topology, started) ==
    /\ neighbor = topology
    /\ neighCost = topology
    /\ rtrTable = [n \in Node |-> InitTable(topology[n])]
    /\ rtrTable_history = [n \in Node |-> None]
    /\ convergedPrintTimes = [n \in Node |-> 0]
    /\ alive = [n \in Node |-> n \in started]
    /\ printed = [n \in Node |-> "nothing"]
    /\ shown = [n \in Node |-> None]
    /\ PoisonReverse \in BOOLEAN
    /\ net = {}
    /\ events = 0
    /\ last = NoOp
    /\ timer = IdleTimer(topology[Observed])

\* One router, A, is under observation: its peers are whatever sends it
\* datagrams.
Init == \E topology \in {LineTopology, TriangleTopology} : RouterInit(topology, {"A"})

-----------------------------------------------------------------------------
(* Router.__showrt *)

\* Lines 96-97 and 115-116: a cost above MaxHop is stored back as MaxHop + 1.
Clamp(T) ==
    [dest \in DOMAIN T |->
        IF T[dest].cost > MaxHop THEN [T[dest] EXCEPT !.cost = MaxHop + 1] ELSE T[dest]]

\* str(self.__rtrTable) != str(self.__rtrTable_history)
TableChanged(T, history) == <<T>> # history

\* showrt that prints the converged notice at every tick without a change.
showrtRepeatsNotice(n) ==
    IF TableChanged(rtrTable[n], rtrTable_history[n])
    THEN /\ rtrTable' = [rtrTable EXCEPT ![n] = Clamp(rtrTable[n])]
         /\ rtrTable_history' = [rtrTable_history EXCEPT ![n] = <<Clamp(rtrTable[n])>>]
         /\ convergedPrintTimes' = [convergedPrintTimes EXCEPT ![n] = 0]
         /\ printed' = [printed EXCEPT ![n] = "table"]
         /\ shown' = [shown EXCEPT ![n] = <<Clamp(rtrTable[n])>>]
    ELSE /\ rtrTable' = [rtrTable EXCEPT ![n] = Clamp(rtrTable[n])]
         /\ printed' = [printed EXCEPT ![n] = "converged"]
         /\ shown' = [shown EXCEPT ![n] = <<Clamp(rtrTable[n])>>]
         /\ UNCHANGED <<rtrTable_history, convergedPrintTimes>>

\* showrt that copies the table before the loop that caps the costs.
showrtCopiesBeforeCap(n) ==
    IF TableChanged(rtrTable[n], rtrTable_history[n])
    THEN /\ rtrTable' = [rtrTable EXCEPT ![n] = Clamp(rtrTable[n])]
         /\ rtrTable_history' = [rtrTable_history EXCEPT ![n] = <<rtrTable[n]>>]
         /\ convergedPrintTimes' = [convergedPrintTimes EXCEPT ![n] = 0]
         /\ printed' = [printed EXCEPT ![n] = "table"]
         /\ shown' = [shown EXCEPT ![n] = <<Clamp(rtrTable[n])>>]
    ELSE IF convergedPrintTimes[n] = 0
    THEN /\ rtrTable' = [rtrTable EXCEPT ![n] = Clamp(rtrTable[n])]
         /\ convergedPrintTimes' = [convergedPrintTimes EXCEPT ![n] = 1]
         /\ printed' = [printed EXCEPT ![n] = "converged"]
         /\ shown' = [shown EXCEPT ![n] = <<Clamp(rtrTable[n])>>]
         /\ UNCHANGED rtrTable_history
    ELSE /\ printed' = [printed EXCEPT ![n] = "nothing"]
         /\ UNCHANGED <<rtrTable, rtrTable_history, convergedPrintTimes, shown>>

showrt(n) ==
    IF TableChanged(rtrTable[n], rtrTable_history[n])
    THEN /\ rtrTable' = [rtrTable EXCEPT ![n] = Clamp(rtrTable[n])]
         /\ rtrTable_history' = [rtrTable_history EXCEPT ![n] = <<Clamp(rtrTable[n])>>]
         /\ convergedPrintTimes' = [convergedPrintTimes EXCEPT ![n] = 0]
         /\ printed' = [printed EXCEPT ![n] = "table"]
         /\ shown' = [shown EXCEPT ![n] = <<Clamp(rtrTable[n])>>]
    ELSE IF convergedPrintTimes[n] = 0
    THEN /\ rtrTable' = [rtrTable EXCEPT ![n] = Clamp(rtrTable[n])]
         /\ convergedPrintTimes' = [convergedPrintTimes EXCEPT ![n] = 1]
         /\ printed' = [printed EXCEPT ![n] = "converged"]
         /\ shown' = [shown EXCEPT ![n] = <<Clamp(rtrTable[n])>>]
         /\ UNCHANGED rtrTable_history
    ELSE /\ printed' = [printed EXCEPT ![n] = "nothing"]
         /\ UNCHANGED <<rtrTable, rtrTable_history, convergedPrintTimes, shown>>

-----------------------------------------------------------------------------
(* The state of router n before an operation, and the record of an operation *)

Pre(n) == [rtr |-> rtrTable[n], nc |-> neighCost[n], hist |-> rtrTable_history[n],
           shown |-> shown[n]]

\* ticks[n] counts the ticks of router n since its tables were last written by
\* an apply or a link event, stable[n] its ticks since the last one that found
\* the table changed; both stop counting at 2.  lost: the transport has lost a
\* link notice.
Op(op, by, n, addr, flag, dist, vec, sent, ok) ==
    [op |-> op, by |-> by, node |-> n, addr |-> addr, flag |-> flag, dist |-> dist,
     vec |-> vec, sent |-> sent, pre |-> Pre(n), ok |-> ok,
     ticks |-> [last.ticks EXCEPT
                    ![n] = IF op = "tick" THEN Min(@ + 1, 2)
                           ELSE IF op = "input" THEN @ ELSE 0],
     stable |-> [last.stable EXCEPT
                    ![n] = IF op # "tick" THEN @
                           ELSE IF TableChanged(rtrTable[n], rtrTable_history[n]) THEN 0
                           ELSE Min(@ + 1, 2)],
     lost |-> last.lost]

Datagram(src, dst, flag, dist, vec) ==
    [src |-> src, dst |-> dst, flag |-> flag, dist |-> dist, vec |-> vec]

-----------------------------------------------------------------------------
(* Router.__sendRtrTable *)

\* vectorFor with the exemption of the neighbour's own entry forgotten.
vectorForPoisonsTarget(T, nextHop, poison) ==
    [dest \in DOMAIN T |->
        IF poison /\ T[dest].nextHop = nextHop
        THEN [T[dest] EXCEPT !.cost = MaxHop + 1]
        ELSE T[dest]]

\* vectorFor that poisons whether or not poison reverse is switched on.
vectorForAlwaysPoisons(T, nextHop, poison) ==
    [dest \in DOMAIN T |->
        IF dest # nextHop /\ T[dest].nextHop = nextHop
        THEN [T[dest] EXCEPT !.cost = MaxHop + 1]
        ELSE T[dest]]

\* The copy of the routing table sent to neighbour nextHop.
vectorFor(T, nextHop, poison) ==
    [dest \in DOMAIN T |->
        IF poison /\ dest # nextHop /\ T[dest].nextHop = nextHop
        THEN [T[dest] EXCEPT !.cost = MaxHop + 1]
        ELSE T[dest]]

sendRtrTable(n, T) ==
    {Datagram(rName2addr[n], rName2addr[nextHop], jsonFlag, 0,
              vectorFor(T, nextHop, PoisonReverse)) : nextHop \in DOMAIN neighbor[n]}

-----------------------------------------------------------------------------
(* Router.__updateTimer: print the table, then send it to every neighbour *)

\* sendto: a datagram for a router whose process is not running is discarded
\* by the addressee's host; the others are in flight.
Wire(datagrams) == {m \in datagrams : alive[addr2rName[m.dst]]}

updateTimer(n) ==
    /\ alive[n]
    /\ showrt(n)
    /\ LET sent == sendRtrTable(n, rtrTable'[n])
       IN  /\ Cardinality(net \cup Wire(sent)) <= MaxInFlight
           /\ net' = net \cup Wire(sent)
           /\ last' = Op("tick", "timer", n, rName2addr[n], "", 0, EmptyTable, sent, TRUE)
    /\ UNCHANGED <<neighbor, neighCost, PoisonReverse, alive>>

-----------------------------------------------------------------------------
(* Router.__updatertrTable *)

\* dict[key] = value
Put(f, key, value) == [k \in DOMAIN f \cup {key} |-> IF k = key THEN value ELSE f[k]]

\* dict.pop(key)
Pop(f, key) == [k \in DOMAIN f \ {key} |-> f[k]]

\* min(self.__neighCost[From] + rtrtable[dest]['cost'], self.__MaxHop + 1)
Candidate(nc, From, adv) == Min(nc[From] + adv, MaxHop + 1)

\* Relax without the branch for the same next hop: plain relaxation.
RelaxIfSmaller(T, nc, From, dest, adv) ==
    IF dest \notin DOMAIN T
    THEN [nextHop |-> From, cost |-> Candidate(nc, From, adv)]
    ELSE IF nc[From] + adv < T[dest].cost
    THEN [nextHop |-> From, cost |-> Candidate(nc, From, adv)]
    ELSE T[dest]

\* One pass of the loop body (lines 178-197) for destination dest.
Relax(T, nc, From, dest, adv) ==
    IF dest \notin DOMAIN T
    THEN [nextHop |-> From, cost |-> Candidate(nc, From, adv)]
    ELSE IF T[dest].nextHop = From
    THEN [T[dest] EXCEPT !.cost = Candidate(nc, From, adv)]
    ELSE IF nc[From] + adv < T[dest].cost
    THEN [nextHop |-> From, cost |-> Candidate(nc, From, adv)]
    ELSE T[dest]

\* updatertrTable without the test that skips the router's own name.
updatertrTableRelaxesSelf(T, nc, name, From, rtrtable) ==
    [dest \in DOMAIN T \cup DOMAIN rtrtable |->
        IF dest \in DOMAIN rtrtable
        THEN Relax(T, nc, From, dest, rtrtable[dest].cost)
        ELSE T[dest]]

\* The table after the whole loop, when From has a neighbour cost.
updatertrTable(T, nc, name, From, rtrtable) ==
    [dest \in DOMAIN T \cup (DOMAIN rtrtable \ {name}) |->
        IF dest \in DOMAIN rtrtable /\ dest # name
        THEN Relax(T, nc, From, dest, rtrtable[dest].cost)
        ELSE T[dest]]

\* The tables the loop can leave behind when self.__neighCost[From] raises
\* KeyError at the first destination other than the router itself: a new
\* destination already has its entry with nextHop and no cost (lines 181-183).
\* Which destination comes first is the sender's dict order.
tablesAtKeyError(T, name, From, rtrtable) ==
    {IF dest \in DOMAIN T THEN T ELSE Put(T, dest, [nextHop |-> From]) :
        dest \in DOMAIN rtrtable \ {name}}

-----------------------------------------------------------------------------
(* Router.__linkChange and Router.__linkDown: the assignments before sendto *)

\* linkChange that keeps a route it already has to the neighbour.
linkChangeKeepsRoute(n, rName, dist) ==
    /\ neighbor' = [neighbor EXCEPT ![n] = Put(neighbor[n], rName, dist)]
    /\ neighCost' = [neighCost EXCEPT ![n] = Put(neighCost[n], rName, dist)]
    /\ rtrTable' = [rtrTable EXCEPT
                        ![n] = IF rName \in DOMAIN rtrTable[n] THEN rtrTable[n]
                               ELSE Put(rtrTable[n], rName,
                                        [nextHop |-> rName, cost |-> dist])]
    /\ convergedPrintTimes' = [convergedPrintTimes EXCEPT ![n] = 0]
    /\ rtrTable_history' = [rtrTable_history EXCEPT ![n] = None]

linkChange(n, rName, dist) ==
    /\ neighbor' = [neighbor EXCEPT ![n] = Put(neighbor[n], rName, dist)]
    /\ neighCost' = [neighCost EXCEPT ![n] = Put(neighCost[n], rName, dist)]
    /\ rtrTable' = [rtrTable EXCEPT
                        ![n] = Put(rtrTable[n], rName, [nextHop |-> rName, cost |-> dist])]
    /\ convergedPrintTimes' = [convergedPrintTimes EXCEPT ![n] = 0]
    /\ rtrTable_history' = [rtrTable_history EXCEPT ![n] = None]

\* linkDown that deletes the route to the neighbour.
linkDownDeletesRoute(n, rName) ==
    /\ neighbor' = [neighbor EXCEPT ![n] = Pop(neighbor[n], rName)]
    /\ neighCost' = [neighCost EXCEPT ![n] = Pop(neighCost[n], rName)]
    /\ rtrTable' = [rtrTable EXCEPT ![n] = Pop(rtrTable[n], rName)]
    /\ convergedPrintTimes' = [convergedPrintTimes EXCEPT ![n] = 0]
    /\ rtrTable_history' = [rtrTable_history EXCEPT ![n] = None]

\* linkDown that leaves the last printed table in place.
linkDownKeepsHistory(n, rName) ==
    /\ neighbor' = [neighbor EXCEPT ![n] = Pop(neighbor[n], rName)]
    /\ neighCost' = [neighCost EXCEPT ![n] = Pop(neighCost[n], rName)]
    /\ rtrTable' = [rtrTable EXCEPT
                        ![n] = Put(rtrTable[n], rName,
                                   [nextHop |-> rName, cost |-> MaxHop + 1])]
    /\ convergedPrintTimes' = [convergedPrintTimes EXCEPT ![n] = 0]
    /\ UNCHANGED rtrTable_history

\* linkDown that also marks the routes through the neighbour unreachable.
linkDownCutsRoutesThrough(n, rName) ==
    /\ neighbor' = [neighbor EXCEPT ![n] = Pop(neighbor[n], rName)]
    /\ neighCost' = [neighCost EXCEPT ![n] = Pop(neighCost[n], rName)]
    /\ rtrTable' = [rtrTable EXCEPT
                        ![n] = [dest \in DOMAIN rtrTable[n] \cup {rName} |->
                                    IF dest = rName
                                    THEN [nextHop |-> rName, cost |-> MaxHop + 1]
                                    ELSE IF rtrTable[n][dest].nextHop = rName
                                    THEN [rtrTable[n][dest] EXCEPT !.cost = MaxHop + 1]
                                    ELSE rtrTable[n][dest]]]
    /\ convergedPrintTimes' = [convergedPrintTimes EXCEPT ![n] = 0]
    /\ rtrTable_history' = [rtrTable_history EXCEPT ![n] = None]

\* linkDown that forgets to pop the neighbour cost.
linkDownKeepsCost(n, rName) ==
    /\ neighbor' = [neighbor EXCEPT ![n] = Pop(neighbor[n], rName)]
    /\ UNCHANGED neighCost
    /\ rtrTable' = [rtrTable EXCEPT
                        ![n] = Put(rtrTable[n], rName,
                                   [nextHop |-> rName, cost |-> MaxHop + 1])]
    /\ convergedPrintTimes' = [convergedPrintTimes EXCEPT ![n] = 0]
    /\ rtrTable_history' = [rtrTable_history EXCEPT ![n] = None]

\* Precondition: rName is a key of self.__neighbor and of self.__neighCost.
linkDown(n, rName) ==
    /\ neighbor' = [neighbor EXCEPT ![n] = Pop(neighbor[n], rName)]
    /\ neighCost' = [neighCost EXCEPT ![n] = Pop(neighCost[n], rName)]
    /\ rtrTable' = [rtrTable EXCEPT
                        ![n] = Put(rtrTable[n], rName,
                                   [nextHop |-> rName, cost |-> MaxHop + 1])]
    /\ convergedPrintTimes' = [convergedPrintTimes EXCEPT ![n] = 0]
    /\ rtrTable_history' = [rtrTable_history EXCEPT ![n] = None]

\* Both pops succeed.
canLinkDown(n, rName) == rName \in DOMAIN neighbor[n] /\ rName \in DOMAIN neighCost[n]

-----------------------------------------------------------------------------
(* Router.__recvRtrTable: one pass of the loop, for datagram m.              *)
(* Only ConnectionError is caught: any other exception leaves the loop and   *)
(* start(), the main thread ends and with it the process (the timer and the  *)
(* command threads are daemon threads).                                      *)

Terminate(n) == alive' = [alive EXCEPT ![n] = FALSE]

Receiver(m) == addr2rName[m.dst]

\* The datagram raises before any assignment: an address that is not in
\* addr2rName (lines 176, 222, 243), a payload json.loads rejects, or a
\* link-down notice from a router that is not a neighbour (line 244).
raisesAtOnce(n, m) ==
    IF m.src \notin Addr \/ m.flag = garbageFlag
    THEN TRUE
    ELSE m.flag = linkDownFlag /\ ~canLinkDown(n, addr2rName[m.src])

recvRaise(m) ==
    LET n == Receiver(m) IN
    /\ alive[n]
    /\ raisesAtOnce(n, m)
    /\ net' = net \ {m}
    /\ Terminate(n)
    /\ last' = Op("recv", "recv", n, m.src, m.flag, m.dist, m.vec, {}, FALSE)
    /\ UNCHANGED <<rtrTable, neighbor, neighCost, rtrTable_history,
                   convergedPrintTimes, PoisonReverse, printed, shown>>

recvLinkChange(m) ==
    LET n == Receiver(m) IN
    /\ alive[n]
    /\ ~raisesAtOnce(n, m)
    /\ m.flag = linkChangeFlag
    /\ net' = net \ {m}
    /\ linkChange(n, addr2rName[m.src], m.dist)
    /\ last' = Op("linkChange", "recv", n, m.src, m.flag, m.dist, EmptyTable, {}, TRUE)
    /\ UNCHANGED <<PoisonReverse, alive, printed, shown>>

recvLinkDown(m) ==
    LET n == Receiver(m) IN
    /\ alive[n]
    /\ ~raisesAtOnce(n, m)
    /\ m.flag = linkDownFlag
    /\ net' = net \ {m}
    /\ linkDown(n, addr2rName[m.src])
    /\ last' = Op("linkDown", "recv", n, m.src, m.flag, 0, EmptyTable, {}, TRUE)
    /\ UNCHANGED <<PoisonReverse, alive, printed, shown>>

\* recvVector that forgets the last printed table when the apply changed an entry.
recvVectorResetsHistory(m) ==
    LET n == Receiver(m)
        From == addr2rName[m.src]
        T == IF From \in DOMAIN neighCost[n]
             THEN updatertrTable(rtrTable[n], neighCost[n], n, From, m.vec)
             ELSE rtrTable[n]
    IN  /\ alive[n]
        /\ ~raisesAtOnce(n, m)
        /\ m.flag = jsonFlag
        /\ From \in DOMAIN neighCost[n] \/ DOMAIN m.vec \subseteq {n}
        /\ net' = net \ {m}
        /\ rtrTable' = [rtrTable EXCEPT ![n] = T]
        /\ rtrTable_history' = [rtrTable_history EXCEPT
                                    ![n] = IF T # rtrTable[n] THEN None ELSE @]
        /\ last' = Op("apply", "recv", n, m.src, m.flag, 0, m.vec, {}, TRUE)
        /\ UNCHANGED <<neighbor, neighCost, convergedPrintTimes,
                       PoisonReverse, alive, printed, shown>>

recvVector(m) ==
    LET n == Receiver(m)
        From == addr2rName[m.src]
    IN  /\ alive[n]
        /\ ~raisesAtOnce(n, m)
        /\ m.flag = jsonFlag
        /\ From \in DOMAIN neighCost[n] \/ DOMAIN m.vec \subseteq {n}
        /\ net' = net \ {m}
        /\ rtrTable' = [rtrTable EXCEPT
                ![n] = IF From \in DOMAIN neighCost[n]
                       THEN updatertrTable(rtrTable[n], neighCost[n], n, From, m.vec)
                       ELSE rtrTable[n]]
        /\ last' = Op("apply", "recv", n, m.src, m.flag, 0, m.vec, {}, TRUE)
        /\ UNCHANGED <<neighbor, neighCost, rtrTable_history, convergedPrintTimes,
                       PoisonReverse, alive, printed, shown>>

\* A vector from a router that has no neighbour cost: KeyError in the loop.
recvVectorKeyError(m) ==
    LET n == Receiver(m)
        From == addr2rName[m.src]
    IN  /\ alive[n]
        /\ ~raisesAtOnce(n, m)
        /\ m.flag = jsonFlag
        /\ From \notin DOMAIN neighCost[n]
        /\ ~(DOMAIN m.vec \subseteq {n})
        /\ net' = net \ {m}
        /\ \E T \in tablesAtKeyError(rtrTable[n], n, From, m.vec) :
                rtrTable' = [rtrTable EXCEPT ![n] = T]
        /\ Terminate(n)
        /\ last' = Op("apply", "recv", n, m.src, m.flag, 0, m.vec, {}, FALSE)
        /\ UNCHANGED <<neighbor, neighCost, rtrTable_history, convergedPrintTimes,
                       PoisonReverse, printed, shown>>

recvRtrTable(m) ==
    \/ recvRaise(m)
    \/ recvLinkChange(m)
    \/ recvLinkDown(m)
    \/ recvVector(m)
    \/ recvVectorKeyError(m)

-----------------------------------------------------------------------------
(* Router.__parseUserInput: one pass of the loop, for one line of input.     *)
(* Every exception is caught and answered with "InputError".                 *)

Orders ==
    {[verb |-> "linkchange", addr |-> a, dist |-> c] :
        a \in Addr \cup {UnknownAddr}, c \in LinkCosts}
    \cup {[verb |-> "linkdown", addr |-> a, dist |-> 0] : a \in Addr \cup {UnknownAddr}}
    \cup {[verb |-> "show", addr |-> UnknownAddr, dist |-> 0]}

InputError(n) == printed' = [printed EXCEPT ![n] = "InputError"]

\* The line raises before any assignment, or is no command at all.
inputRejected(n, order) ==
    IF order.verb \notin {"linkchange", "linkdown"} \/ order.addr \notin Addr
    THEN TRUE
    ELSE order.verb = "linkdown" /\ ~canLinkDown(n, addr2rName[order.addr])

userRejected(n, order) ==
    /\ alive[n]
    /\ inputRejected(n, order)
    /\ InputError(n)
    /\ last' = Op("input", "user", n, order.addr, "", order.dist, EmptyTable, {}, FALSE)
    /\ UNCHANGED <<rtrTable, neighbor, neighCost, rtrTable_history,
                   convergedPrintTimes, PoisonReverse, alive, shown, net>>

\* sendto(...) either puts the notice on the wire or raises (sendOK = FALSE).
userLinkChange(n, order, sendOK) ==
    LET notice == Datagram(rName2addr[n], order.addr, linkChangeFlag, order.dist,
                           EmptyTable)
    IN  /\ alive[n]
        /\ ~inputRejected(n, order)
        /\ order.verb = "linkchange"
        /\ linkChange(n, addr2rName[order.addr], order.dist)
        /\ IF sendOK
           THEN /\ Cardinality(net \cup Wire({notice})) <= MaxInFlight
                /\ net' = net \cup Wire({notice})
                /\ UNCHANGED printed
           ELSE /\ InputError(n)
                /\ UNCHANGED net
        /\ last' = Op("linkChange", "user", n, order.addr, "", order.dist, EmptyTable,
                      IF sendOK THEN {notice} ELSE {}, sendOK)
        /\ UNCHANGED <<PoisonReverse, alive, shown>>

userLinkDown(n, order, sendOK) ==
    LET notice == Datagram(rName2addr[n], order.addr, linkDownFlag, 0, EmptyTable)
    IN  /\ alive[n]
        /\ ~inputRejected(n, order)
        /\ order.verb = "linkdown"
        /\ linkDown(n, addr2rName[order.addr])
        /\ IF sendOK
           THEN /\ Cardinality(net \cup Wire({notice})) <= MaxInFlight
                /\ net' = net \cup Wire({notice})
                /\ UNCHANGED printed
           ELSE /\ InputError(n)
                /\ UNCHANGED net
        /\ last' = Op("linkDown", "user", n, order.addr, "", 0, EmptyTable,
                      IF sendOK THEN {notice} ELSE {}, sendOK)
        /\ UNCHANGED <<PoisonReverse, alive, shown>>

parseUserInput(n) ==
    \E order \in Orders :
        \/ userRejected(n, order)
        \/ \E sendOK \in BOOLEAN : userLinkChange(n, order, sendOK)
        \/ \E sendOK \in BOOLEAN : userLinkDown(n, order, sendOK)

-----------------------------------------------------------------------------------------------------------------------------------------------------
(* The transport: UDP may lose a datagram *)

lose(m) ==
    /\ net' = net \ {m}
    /\ last' = IF m.flag \in {linkChangeFlag, linkDownFlag}
               THEN [last EXCEPT !.lost = TRUE]
               ELSE last
    /\ UNCHANGED <<rtrTable, neighbor, neighCost, rtrTable_history, convergedPrintTimes,
                   PoisonReverse, alive, printed, shown>>

-----------------------------------------------------------------------------
(* What the peers of the router under observation may send it *)

AdvCosts == {0, 1, MaxHop + 1}

Vectors ==
    {[dest \in D |-> [nextHop |-> dest, cost |-> c]] :
        D \in {{"B"}, {"A", "C"}}, c \in AdvCosts}

Incoming ==
    LET me == rName2addr["A"]
        peers == Addr \ {me}
    IN  {Datagram(src, me, jsonFlag, 0, vec) : src \in peers, vec \in Vectors}
        \cup {Datagram(rName2addr["C"], me, linkChangeFlag, c, EmptyTable) :
                c \in LinkCosts}
        \cup {Datagram(src, me, linkDownFlag, 0, EmptyTable) : src \in peers}
        \cup {Datagram(UnknownAddr, me, jsonFlag, 0, EmptyTable),
              Datagram(rName2addr["B"], me, garbageFlag, 0, EmptyTable)}

-----------------------------------------------------------------------------

\* The stimulus counts against the bound of the run.
Counted == events < MaxEvents /\ events' = events + 1

Next ==
    \/ \E n \in Node : updateTimer(n) /\ Counted /\ UNCHANGED timer
    \/ \E m \in net \cup Incoming : recvRtrTable(m) /\ Counted /\ UNCHANGED timer
    \/ \E n \in Node : parseUserInput(n) /\ Counted /\ UNCHANGED timer
    \/ \E m \in net : lose(m) /\ UNCHANGED <<events, timer>>

Spec == Init /\ [][Next]_vars

-----------------------------------------------------------------------------
(* A network of three routers that all run this program.  A datagram in    *)
(* flight is delivered or lost, and the operators type commands that name  *)
(* another router of the network and a cost of at most MaxHop.  The        *)
(* routers start as the line A - B - C.                                    *)

NetInit == RouterInit(LineTopology, Node)

NetOrders == {order \in Orders : order.addr \in Addr /\ order.dist \in 0..MaxHop}

\* Timer expiries and commands count against the bound of the run.
NetCounted == events < MaxNetEvents /\ events' = events + 1

netTimer(n) == updateTimer(n) /\ NetCounted /\ UNCHANGED timer

netDeliver == \E m \in net : recvRtrTable(m) /\ UNCHANGED <<events, timer>>

netCommand(n) ==
    \E order \in NetOrders :
        /\ order.addr # rName2addr[n]
        /\ \/ userRejected(n, order)
           \/ userLinkChange(n, order, TRUE)
           \/ userLinkDown(n, order, TRUE)
        /\ NetCounted
        /\ UNCHANGED timer

netLose == \E m \in net : lose(m) /\ UNCHANGED <<events, timer>>

NetNext ==
    \/ \E n \in Node : netTimer(n)
    \/ netDeliver
    \/ \E n \in Node : netCommand(n)
    \/ netLose

NetSpec == NetInit /\ [][NetNext]_vars

-----------------------------------------------------------------------------
(* The three threads of one router.  The timer thread runs __updateTimer   *)
(* without a lock while the main thread applies datagrams and the command  *)
(* thread applies commands.  Another thread can run where the timer thread *)
(* calls a function or jumps back in a loop: after __showrt, between two    *)
(* entries that copy.deepcopy copies, between two destinations of the      *)
(* poison loop, and after sendto.  An apply, a link event and __showrt are  *)
(* taken as single steps.  The dicts are not resized within the bound.     *)

\* The entries of self.__neighbor after an operation: a popped key leaves a
\* hole, a new key is appended.
SlotsAfter(slots, old, new) ==
    LET kept == [j \in DOMAIN slots |-> IF slots[j] \in DOMAIN new THEN slots[j] ELSE hole]
        added == DOMAIN new \ DOMAIN old
    IN  IF added = {} THEN kept ELSE Append(kept, CHOOSE k \in added : TRUE)

\* What the timer thread sees of an operation of another thread.
Interleaved ==
    timer' = [timer EXCEPT
                !.slots = SlotsAfter(@, neighbor[Observed], neighbor'[Observed]),
                !.seen = IF timer.pc \in {"copy", "poison"}
                         THEN @ \cup {rtrTable'[Observed]}
                         ELSE @]

RaceCounted == events < MaxRaceEvents /\ events' = events + 1

raceRecv == \E m \in Incoming : recvRtrTable(m) /\ Interleaved /\ RaceCounted

raceCommand ==
    \E order \in Orders :
        /\ order.addr # rName2addr[Observed]
        /\ \/ userRejected(Observed, order)
           \/ userLinkChange(Observed, order, TRUE)
           \/ userLinkDown(Observed, order, TRUE)
        /\ Interleaved
        /\ RaceCounted

\* The RuntimeError or KeyError ends the timer thread (RepeatTimer.run).
TimerRaises == timer' = [timer EXCEPT !.pc = "dead"]

\* Line 72: the timer has expired and __showrt has run.
tickShow ==
    /\ alive[Observed]
    /\ timer.pc = "idle"
    /\ showrt(Observed)
    /\ timer' = [timer EXCEPT !.pc = "hop", !.started = FALSE, !.nsize = 0,
                              !.nidx = 0, !.ndone = 0]
    /\ RaceCounted
    /\ UNCHANGED <<neighbor, neighCost, PoisonReverse, alive, net, last>>

\* json.dumps and sendto of the copy (lines 159-161); a vector is torn when it
\* is the image of no table the router had while the vector was made.
Sent ==
    [timer EXCEPT
        !.pc = "hop",
        !.torn = @ \/ timer.copy \notin {vectorFor(T, timer.to, PoisonReverse) :
                                            T \in timer.seen},
        !.copy = EmptyTable, !.seen = {}, !.tsize = 0, !.tdone = 0]

\* One pass of the poison loop (lines 151-154) for the destination at index i
\* of the routing table, on the copy c: KeyError (<<>>) when the copy has no
\* such destination.
Poisoned(c, i) ==
    LET T == rtrTable[Observed]
        dest == KeysInOrder(T)[i]
    IN  IF dest # timer.to /\ T[dest].nextHop = timer.to
        THEN IF dest \in DOMAIN c
             THEN <<[c EXCEPT ![dest].cost = MaxHop + 1]>>
             ELSE <<>>
        ELSE <<c>>

\* Line 146: the next key of self.__neighbor, then the first entry of the
\* copy (line 147).  The loop starts with the size the dict has at its first
\* pass.  The iterator raises when the dict has another size than at the
\* start of the loop; on an entry beyond that size it raises or goes on,
\* depending on the interpreter.
hopNext ==
    LET size == IF timer.started THEN timer.nsize
                ELSE Cardinality(DOMAIN neighbor[Observed])
        later == {j \in (timer.nidx + 1)..Len(timer.slots) : timer.slots[j] # hole}
        j == CHOOSE x \in later : \A y \in later : x <= y
        T == rtrTable[Observed]
        first == KeysInOrder(T)[1]
    IN  /\ alive[Observed]
        /\ timer.pc = "hop"
        /\ IF Cardinality(DOMAIN neighbor[Observed]) # size
           THEN TimerRaises
           ELSE IF later = {}
           THEN timer' = [timer EXCEPT !.pc = "idle"]
           ELSE \/ timer' = [timer EXCEPT !.pc = "copy", !.to = timer.slots[j],
                                          !.started = TRUE, !.nsize = size,
                                          !.nidx = j, !.ndone = @ + 1,
                                          !.tsize = Cardinality(DOMAIN T), !.tdone = 1,
                                          !.copy = Put(EmptyTable, first, T[first]),
                                          !.seen = {T}]
                \/ timer.started /\ timer.ndone = timer.nsize /\ TimerRaises
        /\ UNCHANGED <<rtrTable, neighbor, neighCost, rtrTable_history,
                       convergedPrintTimes, PoisonReverse, alive, printed, shown, net,
                       events, last>>

\* copy.deepcopy: the next entry of self.__rtrTable; after the last one the
\* poison loop starts with its first destination, or the copy is sent.
copyNext ==
    LET T == rtrTable[Observed]
        key == KeysInOrder(T)[timer.tdone + 1]
        first == Poisoned(timer.copy, 1)
    IN  /\ alive[Observed]
        /\ timer.pc = "copy"
        /\ IF Cardinality(DOMAIN T) # timer.tsize
           THEN TimerRaises
           ELSE IF timer.tdone < timer.tsize
           THEN timer' = [timer EXCEPT !.copy = Put(@, key, T[key]), !.tdone = @ + 1]
           ELSE IF ~PoisonReverse
           THEN timer' = Sent
           ELSE IF first = <<>>
           THEN TimerRaises
           ELSE timer' = [timer EXCEPT !.pc = "poison", !.copy = first[1],
                                       !.tsize = Cardinality(DOMAIN T), !.tdone = 1]
        /\ UNCHANGED <<rtrTable, neighbor, neighCost, rtrTable_history,
                       convergedPrintTimes, PoisonReverse, alive, printed, shown, net,
                       events, last>>

\* Line 151: the next destination of the poison loop; after the last one the
\* copy is sent.
poisonNext ==
    LET T == rtrTable[Observed]
        next == Poisoned(timer.copy, timer.tdone + 1)
    IN  /\ alive[Observed]
        /\ timer.pc = "poison"
        /\ IF Cardinality(DOMAIN T) # timer.tsize
           THEN TimerRaises
           ELSE IF timer.tdone = timer.tsize
           THEN timer' = Sent
           ELSE IF next = <<>>
           THEN TimerRaises
           ELSE timer' = [timer EXCEPT !.copy = next[1], !.tdone = @ + 1]
        /\ UNCHANGED <<rtrTable, neighbor, neighCost, rtrTable_history,
                       convergedPrintTimes, PoisonReverse, alive, printed, shown, net,
                       events, last>>

RaceNext ==
    \/ tickShow
    \/ hopNext
    \/ copyNext
    \/ poisonNext
    \/ raceRecv
    \/ raceCommand

RaceSpec == Init /\ [][RaceNext]_vars

-----------------------------------------------------------------------------
(* Properties.  The last operation is last.op at router last.node, from or   *)
(* about the router at address last.addr.                                    *)

Self == last.node

Peer == addr2rName[last.addr]

\* An apply that ran to its end with a neighbour cost for the sender.
Applied == last.op = "apply" /\ last.ok /\ Peer \in DOMAIN last.pre.nc

\* min(neighborCost[from] + adv, MaxHop + 1) for destination dest of the vector.
CandidateOf(dest) == Min(last.pre.nc[Peer] + last.vec[dest].cost, MaxHop + 1)

\* C1: after apply(from, vector), every destination other than the router
\* itself whose route had nextHop = from has cost
\* min(neighborCost[from] + adv, MaxHop + 1) and still nextHop = from,
\* whether that cost is smaller or larger than before.
SameNextHopOverride ==
    Applied =>
        \A dest \in DOMAIN last.vec \ {Self} :
            (dest \in DOMAIN last.pre.rtr /\ last.pre.rtr[dest].nextHop = Peer)
                => rtrTable[Self][dest] = [nextHop |-> Peer, cost |-> CandidateOf(dest)]

\* An apply has raised the cost of a route through the sender.
SameNextHopRaised ==
    /\ Applied
    /\ \E dest \in DOMAIN last.vec \ {Self} :
            /\ dest \in DOMAIN last.pre.rtr
            /\ last.pre.rtr[dest].nextHop = Peer
            /\ rtrTable[Self][dest].cost > last.pre.rtr[dest].cost

\* C2: after apply(from, vector), a destination without a route has the route
\* {from, candidate}; a destination routed through another next hop has the
\* route {from, candidate} exactly when candidate < its cost, and its old
\* route otherwise.
RelaxationThroughOtherNeighbor ==
    Applied =>
        \A dest \in DOMAIN last.vec \ {Self} :
            /\ dest \notin DOMAIN last.pre.rtr
                => rtrTable[Self][dest] = [nextHop |-> Peer, cost |-> CandidateOf(dest)]
            /\ (dest \in DOMAIN last.pre.rtr /\ last.pre.rtr[dest].nextHop # Peer)
                => rtrTable[Self][dest] =
                        IF CandidateOf(dest) < last.pre.rtr[dest].cost
                        THEN [nextHop |-> Peer, cost |-> CandidateOf(dest)]
                        ELSE last.pre.rtr[dest]

\* The cost the vector of a tick must carry to neighbour T for destination dest.
Advertised(T, dest) ==
    IF dest # T /\ rtrTable[Self][dest].nextHop = T
    THEN MaxHop + 1
    ELSE rtrTable[Self][dest].cost

\* C3: with poison reverse on, a tick sends every neighbour T one vector with
\* every destination of the routing table: at cost MaxHop + 1 when the route's
\* next hop is T and the destination is not T, at the stored cost otherwise.
PoisonReverseSuppression ==
    (PoisonReverse /\ last.op = "tick") =>
        \A T \in DOMAIN neighbor[Self] :
            \E m \in last.sent :
                /\ m.dst = rName2addr[T]
                /\ m.flag = jsonFlag
                /\ DOMAIN m.vec = DOMAIN rtrTable[Self]
                /\ \A dest \in DOMAIN m.vec : m.vec[dest].cost = Advertised(T, dest)
                /\ \A other \in last.sent : other.dst = m.dst => other = m

\* A tick has poisoned a reachable route for one neighbour and has told the
\* neighbour its own entry as stored.
PoisonedForNeighbor ==
    /\ PoisonReverse
    /\ last.op = "tick"
    /\ \E T \in DOMAIN neighbor[Self] :
            /\ T \in DOMAIN rtrTable[Self]
            /\ rtrTable[Self][T].nextHop = T
            /\ rtrTable[Self][T].cost <= MaxHop
            /\ \E dest \in DOMAIN rtrTable[Self] \ {T} :
                    /\ rtrTable[Self][dest].nextHop = T
                    /\ rtrTable[Self][dest].cost <= MaxHop

\* C4: after linkDown(peer) the neighbour cost table has no entry for peer and
\* the routing table has the entry {nextHop: peer, cost: MaxHop + 1} for it.
LinkDownStub ==
    last.op = "linkDown" =>
        /\ Peer \notin DOMAIN neighCost[Self]
        /\ Peer \in DOMAIN rtrTable[Self]
        /\ rtrTable[Self][Peer] = [nextHop |-> Peer, cost |-> MaxHop + 1]

\* A linkDown has removed a neighbour the router reached at a finite cost.
LinkDownDone ==
    /\ last.op = "linkDown"
    /\ Peer \in DOMAIN last.pre.nc
    /\ last.pre.rtr[Peer].cost <= MaxHop

\* C5: every cost in the routing table of a running router is in 0..MaxHop+1.
CostBound ==
    \A n \in Node :
        alive[n] => \A dest \in DOMAIN rtrTable[n] : rtrTable[n][dest].cost \in 0..(MaxHop + 1)

\* The router at Self has the tables it had before the last operation.
TablesUntouched ==
    /\ rtrTable[Self] = last.pre.rtr
    /\ neighCost[Self] = last.pre.nc
    /\ rtrTable_history[Self] = last.pre.hist

\* C8: a datagram from an address outside the identity table, or with a
\* payload that does not decode, changes no table and does not stop the router.
BadDatagramDiscarded ==
    (last.by = "recv" /\ (last.addr \notin Addr \/ last.flag = garbageFlag)) =>
        TablesUntouched /\ alive[Self]

\* C9: right after linkUp(N, c) the neighbour cost of N is c and the route to
\* N is {nextHop: N, cost: c}, whatever was there before.
LinkUpPostcondition ==
    last.op = "linkChange" =>
        /\ Peer \in DOMAIN neighCost[Self]
        /\ neighCost[Self][Peer] = last.dist
        /\ Peer \in DOMAIN rtrTable[Self]
        /\ rtrTable[Self][Peer] = [nextHop |-> Peer, cost |-> last.dist]

\* A linkUp has replaced a route to N that went through another router.
LinkUpOverLearnedRoute ==
    /\ last.op = "linkChange"
    /\ Peer \in DOMAIN last.pre.rtr
    /\ last.pre.rtr[Peer].nextHop # Peer
    /\ last.pre.rtr[Peer].cost < last.dist

\* A step of router n that is a link event, and one that is a tick.
LinkEventStep(n) ==
    events' = events + 1 /\ last'.node = n /\ last'.op \in {"linkChange", "linkDown"}

TickStep(n) == events' = events + 1 /\ last'.node = n /\ last'.op = "tick"

\* C10: a link event leaves the router without a last printed table, nothing
\* but a tick gives it one again, and the tick that does prints the table and
\* keeps a copy of it.
LinkEventForcesReport ==
    [][\A n \in Node :
            /\ LinkEventStep(n) => rtrTable_history'[n] = None
            /\ (rtrTable_history[n] = None /\ ~TickStep(n))
                    => rtrTable_history'[n] = None
            /\ (rtrTable_history[n] = None /\ TickStep(n))
                    => /\ printed'[n] = "table"
                       /\ rtrTable_history'[n] = <<rtrTable'[n]>>]_vars

\* A tick after a link event has printed the very table the tick before the
\* event had printed.
SameTableReportedAgain ==
    /\ last.op = "tick"
    /\ last.pre.hist = None
    /\ last.pre.shown = <<rtrTable[Self]>>
    /\ printed[Self] = "table"

\* C6: in a network of routers that all run this program, no router stops.
NoRouterStops == \A n \in Node : alive[n]

\* The cost of the link from a to b as a knows it (MaxHop + 1: no link).
Link(a, b) == IF b \in DOMAIN neighCost[a] THEN neighCost[a][b] ELSE MaxHop + 1

\* The least cost of a path from a to b among three routers.
LeastCost(a, b) ==
    LET c == CHOOSE x \in Node : x # a /\ x # b
    IN  Min(MaxHop + 1, Min(Link(a, b), Link(a, c) + Link(c, b)))

\* Every link event has been applied at both ends, and nothing stopped.
LinksSettled ==
    /\ \A a \in Node : alive[a] /\ a \notin DOMAIN neighCost[a]
    /\ \A a \in Node, b \in Node : Link(a, b) = Link(b, a)

\* What router a would learn from the next vector of its neighbour b.
NextFrom(a, b) ==
    updatertrTable(rtrTable[a], neighCost[a], a, b,
                   vectorFor(Clamp(rtrTable[b]), a, PoisonReverse))

\* No datagram is in flight and no tick of any router can change any table:
\* without another link event the tables stay as they are for ever.
Quiescent ==
    /\ net = {}
    /\ \A a \in Node : Clamp(rtrTable[a]) = rtrTable[a]
    /\ \A a \in Node : \A b \in DOMAIN neighbor[a] : NextFrom(a, b) = rtrTable[a]

RoutesCorrect ==
    \A a \in Node :
        \A b \in Node \ {a} :
            IF b \in DOMAIN rtrTable[a]
            THEN rtrTable[a][b].cost = LeastCost(a, b)
            ELSE LeastCost(a, b) = MaxHop + 1

\* C7: once the link events are applied at both ends and the vectors have
\* been delivered, so that the tables have stopped changing, every router
\* holds the least path cost to every destination, or MaxHop + 1 for one it
\* cannot reach.
ReConvergence == (LinksSettled /\ Quiescent) => RoutesCorrect

-----------------------------------------------------------------------------
(* The report of a tick *)

\* The tick found the routing table different from the last printed one.
ChangedTick == TableChanged(last.pre.rtr, last.pre.hist)

\* C11: a tick that finds the table changed prints the table and never the
\* converged notice; of the ticks that find it unchanged, the first one after
\* a changed tick prints the converged notice and every later one is silent.
ConvergedNoticeOnce ==
    last.op = "tick" =>
        IF ChangedTick
        THEN printed[Self] = "table"
        ELSE /\ printed[Self] \in {"converged", "nothing"}
             /\ printed[Self] = "converged" <=> last.stable[Self] = 1

\* The second tick in a row that found the table unchanged was silent.
SilentAfterNotice ==
    /\ last.op = "tick"
    /\ ~ChangedTick
    /\ last.stable[Self] = 2
    /\ printed[Self] = "nothing"

\* C12: of the ticks that follow one another with no apply and no link event
\* in between, every one after the first finds the table unchanged and leaves
\* the routing table and the last printed table as they were.
StableEvaluationIdempotent ==
    (last.op = "tick" /\ last.ticks[Self] = 2) =>
        /\ ~ChangedTick
        /\ printed[Self] # "table"
        /\ rtrTable[Self] = last.pre.rtr
        /\ rtrTable_history[Self] = last.pre.hist

\* The tick before had capped a cost of MaxHop + 2 that a link change had stored.
EvaluatedAgainAfterCap ==
    /\ last.op = "tick"
    /\ last.ticks[Self] = 2
    /\ \E dest \in DOMAIN neighCost[Self] :
            /\ neighCost[Self][dest] = MaxHop + 2
            /\ rtrTable[Self][dest].cost = MaxHop + 1

\* C13: an apply neither creates a route to the router's own name nor changes
\* one, whatever the vector and whoever sent it.
SelfRouteExclusion ==
    last.op = "apply" =>
        IF Self \in DOMAIN last.pre.rtr
        THEN Self \in DOMAIN rtrTable[Self] /\ rtrTable[Self][Self] = last.pre.rtr[Self]
        ELSE Self \notin DOMAIN rtrTable[Self]

\* An apply has met its own name in a vector that offers a cheaper route to it
\* than the one the router has.
SelfRouteOffered ==
    /\ Applied
    /\ Self \in DOMAIN last.vec
    /\ Self \in DOMAIN last.pre.rtr
    /\ CandidateOf(Self) < last.pre.rtr[Self].cost

\* C14: a command answered with InputError leaves the routing table, the
\* neighbour costs and the last printed table as they were.
InputErrorLeavesTables ==
    (last.by = "user" /\ printed[Self] = "InputError") => TablesUntouched

\* C15: with poison reverse off, a tick sends every neighbour one vector, and
\* every vector it sends is the routing table, entry for entry.
PlainVectorWithoutPoison ==
    (~PoisonReverse /\ last.op = "tick") =>
        /\ \A T \in DOMAIN neighbor[Self] :
                \E m \in last.sent : m.dst = rName2addr[T] /\ m.flag = jsonFlag
        /\ \A m \in last.sent : m.vec = rtrTable[Self]

\* A tick without poison reverse has told a neighbour the cost of a reachable
\* route that goes through that neighbour.
RouteThroughNeighborTold ==
    /\ ~PoisonReverse
    /\ last.op = "tick"
    /\ \E m \in last.sent :
            \E dest \in DOMAIN m.vec \ {addr2rName[m.dst]} :
                /\ rtrTable[Self][dest].nextHop = addr2rName[m.dst]
                /\ m.vec[dest].cost <= MaxHop

\* The next tick of the router at Self would print the table.
NextTickReports == TableChanged(rtrTable[Self], rtrTable_history[Self])

\* C17 as claimed: after an apply that changed the routing table the next tick
\* reports the table, also when the apply changed an entry back to the value
\* the last tick printed.
ChangingApplyIsReported ==
    (Applied /\ rtrTable[Self] # last.pre.rtr) => NextTickReports

\* C17 as amended: an apply leaves the last printed table as it is, and the
\* next tick reports exactly when the routing table differs from the table
\* the last tick printed or no tick has printed since the last link event.
ApplyLeavesSnapshot ==
    Applied =>
        /\ rtrTable_history[Self] = last.pre.hist
        /\ NextTickReports <=> (last.pre.hist = None \/ <<rtrTable[Self]>> # shown[Self])

\* An apply has changed an entry back to the value the last tick printed.
ChangedBackToPrinted ==
    /\ Applied
    /\ rtrTable[Self] # last.pre.rtr
    /\ last.pre.hist # None
    /\ <<rtrTable[Self]>> = shown[Self]

\* C19: linkDown(peer) leaves every routing entry but the peer's as it was,
\* the routes through the peer included, and no operation removes an entry.
LinkDownFrame ==
    /\ last.op = "linkDown" =>
            \A dest \in DOMAIN last.pre.rtr \ {Peer} :
                dest \in DOMAIN rtrTable[Self] /\ rtrTable[Self][dest] = last.pre.rtr[dest]
    /\ last.op # "init" => DOMAIN last.pre.rtr \subseteq DOMAIN rtrTable[Self]

\* A linkDown has left a reachable route through the peer in the table.
StaleRouteKept ==
    /\ last.op = "linkDown"
    /\ \E dest \in DOMAIN last.pre.rtr \ {Peer} :
            /\ last.pre.rtr[dest].nextHop = Peer
            /\ last.pre.rtr[dest].cost <= MaxHop
            /\ rtrTable[Self][dest] = last.pre.rtr[dest]

\* C20: the routers a tick sends to are the keys of the neighbour cost table,
\* and each of them has a routing entry with a cost.
NeighborsHaveRouteAndCost ==
    /\ \A n \in Node :
            /\ DOMAIN neighbor[n] = DOMAIN neighCost[n]
            /\ \A r \in DOMAIN neighbor[n] :
                    r \in DOMAIN rtrTable[n] /\ "cost" \in DOMAIN rtrTable[n][r]
    /\ last.op = "tick" =>
            {addr2rName[m.dst] : m \in last.sent} = DOMAIN neighCost[Self]

\* A linkdown command for a router that a link down had already removed was
\* answered with InputError.
LinkDownOfRemovedNeighbor ==
    /\ last.op = "input"
    /\ last.addr \in Addr
    /\ Peer \notin DOMAIN neighbor[Self]
    /\ Peer \in DOMAIN rtrTable[Self]
    /\ rtrTable[Self][Peer] = [nextHop |-> Peer, cost |-> MaxHop + 1]

\* The one notice a command sends.
NoticeOf ==
    Datagram(rName2addr[Self], last.addr,
             IF last.op = "linkChange" THEN linkChangeFlag ELSE linkDownFlag,
             last.dist, EmptyTable)

\* Every notice sent about the link between Self and Peer has been applied:
\* none is in flight, none was lost, and no router has stopped.
NoticesApplied ==
    /\ ~last.lost
    /\ \A n \in Node : alive[n]
    /\ \A m \in net :
            (m.flag \in {linkChangeFlag, linkDownFlag})
                => {m.src, m.dst} # {rName2addr[Self], last.addr}

\* C18: a link command sends one notice, to the peer; the router that
\* receives a notice applies it and sends nothing; and once the notices are
\* applied both ends hold the same cost for the link, or neither holds one.
PeerNotifiedWithoutEcho ==
    /\ (last.by = "user" /\ last.op \in {"linkChange", "linkDown"}) =>
            last.sent = {NoticeOf}
    /\ last.by = "recv" => last.sent = {}
    /\ (last.by = "recv" /\ last.op \in {"linkChange", "linkDown"} /\ NoticesApplied)
        => Link(Self, Peer) = Link(Peer, Self)

\* C16: a tick never ends in an error because another thread changed the
\* routing table or the neighbours while it was iterating, and every vector
\* it sends is the image of the routing table at one instant.
TickIsAtomic == timer.pc # "dead" /\ ~timer.torn

====
